---- MODULE Spec2Model ----
(***************************************************************************)
(* A model of rl/callbacks.py: the CallbackList dispatch shim, the         *)
(* per-episode logger TrainEpisodeLogger and the interval logger           *)
(* TrainIntervalLogger.  Every handler is one atomic action (the host      *)
(* training loop serialises the calls to one callback instance).           *)
(*                                                                         *)
(* Numbers are exact rationals [tag, num, den]; NaN is its own value.      *)
(* `out` holds what the latest handler call did: the exception it raised   *)
(* ("" if none), the lines it printed and the locals the claims speak of.  *)
(***************************************************************************)
EXTENDS Integers, Sequences, FiniteSets, TLC

VARIABLES
  now,             \* the reading of timeit.default_timer()
  episode_start,   \* TrainEpisodeLogger.episode_start  (dict episode -> time)
  observations,    \* TrainEpisodeLogger.observations   (dict episode -> list)
  rewards,         \* TrainEpisodeLogger.rewards
  actions,         \* TrainEpisodeLogger.actions
  metrics,         \* TrainEpisodeLogger.metrics
  delivered,       \* history: episode -> step-end payloads received since its begin
  callbacks,       \* CallbackList.callbacks (registration order)
  calls,           \* the methods the latest dispatch invoked, in order
  interval,        \* TrainIntervalLogger.interval
  steps,           \* TrainIntervalLogger.steps
  interval_start,  \* TrainIntervalLogger.interval_start
  progbar,         \* TrainIntervalLogger.progbar
  window_metrics,  \* TrainIntervalLogger.metrics
  trace,           \* history: the step-begin / step-end events the interval logger received
  out              \* outcome of the latest handler call

telVars == <<episode_start, observations, rewards, actions, metrics, delivered>>
cbVars  == <<callbacks, calls>>
ilVars  == <<interval, steps, interval_start, progbar, window_metrics, trace>>
vars    == <<now, telVars, cbVars, ilVars, out>>

(***************************************************************************)
(* Bounds of the model.                                                    *)
(***************************************************************************)
MaxClock == 2        \* the timer takes the values 0..MaxClock
MaxSteps == 2        \* step-end events delivered to one episode
MaxCallbacks == 3    \* callbacks registered in a CallbackList
MaxExtraSteps == 2   \* steps the interval logger takes beyond one full window

DefaultInterval == 10000
Episodes == {0, 1}

(***************************************************************************)
(* Numbers.                                                                *)
(***************************************************************************)
RECURSIVE GCD(_, _)
GCD(a, b) == IF b = 0 THEN a ELSE GCD(b, a % b)

Num(n, d) == [tag |-> "num", num |-> n, den |-> d, str |-> ""]
NaN == [tag |-> "nan", num |-> 0, den |-> 1, str |-> ""]
Str(s) == [tag |-> "str", num |-> 0, den |-> 1, str |-> s]

\* n / d as a reduced fraction, d > 0, n >= 0
Rat(n, d) == LET g == GCD(n, d) IN Num(n \div g, d \div g)
IntVal(n) == Num(n, 1)

\* np.isnan
IsNaN(v) == v.tag = "nan"

RECURSIVE SumSeq(_)
SumSeq(s) == IF s = <<>> THEN 0 ELSE Head(s) + SumSeq(Tail(s))

RECURSIVE MinSeq(_)
MinSeq(s) == IF Len(s) = 1 THEN s[1]
             ELSE LET m == MinSeq(Tail(s)) IN IF s[1] <= m THEN s[1] ELSE m

RECURSIVE MaxSeq(_)
MaxSeq(s) == IF Len(s) = 1 THEN s[1]
             ELSE LET m == MaxSeq(Tail(s)) IN IF s[1] >= m THEN s[1] ELSE m

\* np.mean of a non-empty list of integers
MeanSeq(s) == Rat(SumSeq(s), Len(s))

\* np.concatenate: a list of arrays flattened into one array
RECURSIVE Concatenate(_)
Concatenate(arrs) == IF arrs = <<>> THEN <<>> ELSE Head(arrs) \o Concatenate(Tail(arrs))

\* column idx of a list of metric vectors:  metrics[:, idx]
Column(vectors, idx) == [k \in 1..Len(vectors) |-> vectors[k][idx]]

NonNaN(col) == SelectSeq(col, LAMBDA v : ~IsNaN(v))

\* sum of a column of whole numbers
RECURSIVE SumVals(_)
SumVals(col) == IF col = <<>> THEN 0 ELSE Head(col).num + SumVals(Tail(col))

\* np.nanmean of one column: the mean of the non-NaN entries; with none, numpy
\* warns "Mean of empty slice" and yields NaN.
NanMean(col) == LET kept == NonNaN(col) IN
                IF kept = <<>> THEN NaN ELSE Rat(SumVals(kept), Len(kept))
NanMeanWarns(col) == NonNaN(col) = <<>>

(***************************************************************************)
(* Inputs: the metric names of the model and the step-end log payloads.    *)
(***************************************************************************)
MetricsNames == <<"loss", "mae">>

Payload(r, a, o, m) == [reward |-> r, action |-> a, observation |-> o, metrics |-> m]

StepLogs == { Payload(1, 0, <<<<1>>, <<2>>>>, <<NaN, IntVal(2)>>),
              Payload(2, 1, <<<<3, 0>>>>,     <<IntVal(1), NaN>>),
              Payload(0, 2, <<<<0>>, <<1>>>>, <<NaN, IntVal(3)>>) }

\* the two vectors of the documented example, used with the window of 10
StepLogs10 == { Payload(1, 0, <<<<1>>, <<2>>>>, <<NaN, IntVal(2)>>),
                Payload(2, 1, <<<<3, 0>>>>,     <<IntVal(1), NaN>>) }

(***************************************************************************)
(* Python dictionaries: functions with a finite domain.                    *)
(***************************************************************************)
EmptyDict == [k \in {} |-> 0]
SetItem(d, key, v) == [k \in DOMAIN d \cup {key} |-> IF k = key THEN v ELSE d[k]]
DelItem(d, key) == [k \in DOMAIN d \ {key} |-> d[k]]

NoOut == [event |-> "", arg |-> -1, exc |-> "", printed |-> <<>>,
          duration |-> -1, steps |-> -1, logs |-> EmptyDict, filtered |-> <<>>]

\* timeit.default_timer() advances between calls (or does not: two readings
\* may be equal)
Tick == /\ now < MaxClock
        /\ now' = now + 1
        /\ UNCHANGED <<telVars, cbVars, ilVars, out>>

(***************************************************************************)
(* TrainEpisodeLogger                                                      *)
(***************************************************************************)
TEL_on_episode_begin(episode) ==
  /\ episode_start' = SetItem(episode_start, episode, now)
  /\ observations' = SetItem(observations, episode, <<>>)
  /\ rewards' = SetItem(rewards, episode, <<>>)
  /\ actions' = SetItem(actions, episode, <<>>)
  /\ metrics' = SetItem(metrics, episode, <<>>)
  /\ delivered' = SetItem(delivered, episode, <<>>)
  /\ out' = [NoOut EXCEPT !.event = "on_episode_begin", !.arg = episode]
  /\ UNCHANGED <<now, cbVars, ilVars>>

\* self.<buffer>[episode].append(x)
StepAppendShared(buf, episode, x) == [k \in DOMAIN buf |-> Append(buf[k], x)]
StepAppendOverwrite(buf, episode, x) == [buf EXCEPT ![episode] = <<x>>]
StepAppend(buf, episode, x) == [buf EXCEPT ![episode] = Append(@, x)]

TEL_on_step_end(logs, episode) ==
  IF episode \notin DOMAIN observations
  THEN \* self.observations[episode] raises before anything is appended
       /\ out' = [NoOut EXCEPT !.event = "on_step_end", !.arg = episode, !.exc = "KeyError"]
       /\ UNCHANGED <<now, telVars, cbVars, ilVars>>
  ELSE /\ observations' = StepAppend(observations, episode, Concatenate(logs.observation))
       /\ rewards' = StepAppend(rewards, episode, logs.reward)
       /\ actions' = StepAppend(actions, episode, logs.action)
       /\ metrics' = StepAppend(metrics, episode, logs.metrics)
       /\ delivered' = IF episode \in DOMAIN delivered
                       THEN [delivered EXCEPT ![episode] = Append(@, logs)]
                       ELSE delivered
       /\ out' = [NoOut EXCEPT !.event = "on_step_end", !.arg = episode]
       /\ UNCHANGED <<now, episode_start, cbVars, ilVars>>

\* one entry of the metrics text: the name, the template used and the value
FormatMetricAnyNaN(vectors, idx) ==
  LET col == Column(vectors, idx) IN
  IF NonNaN(col) # col
  THEN [name |-> MetricsNames[idx], template |-> "{}: {}", value |-> Str("--")]
  ELSE [name |-> MetricsNames[idx], template |-> "{}: {:f}", value |-> NanMean(col)]
FormatMetric(vectors, idx) ==
  LET col == Column(vectors, idx) IN
  IF NanMeanWarns(col)
  THEN [name |-> MetricsNames[idx], template |-> "{}: {}", value |-> Str("--")]
  ELSE [name |-> MetricsNames[idx], template |-> "{}: {:f}", value |-> NanMean(col)]

MetricsText(vectors) == [idx \in 1..Len(MetricsNames) |-> FormatMetric(vectors, idx)]

\* the exception on_episode_end raises before it prints, "" if none
EpisodeEndError(episode, duration) ==
  IF episode \notin DOMAIN episode_start THEN "KeyError"
  ELSE IF Len(metrics[episode]) = 0 /\ Len(MetricsNames) > 0 THEN "IndexError"
  ELSE IF duration = 0 THEN "ZeroDivisionError"
  ELSE IF Len(rewards[episode]) = 0 THEN "ValueError"
  ELSE ""

Summary(episode, duration) ==
  LET obs == Concatenate(observations[episode]) IN
  [ episode        |-> episode + 1,
    duration       |-> IntVal(duration),
    steps          |-> Len(observations[episode]),
    sps            |-> Rat(Len(observations[episode]), duration),
    episode_reward |-> SumSeq(rewards[episode]),
    reward         |-> MeanSeq(rewards[episode]),
    reward_min     |-> MinSeq(rewards[episode]),
    reward_max     |-> MaxSeq(rewards[episode]),
    action         |-> MeanSeq(actions[episode]),
    action_min     |-> MinSeq(actions[episode]),
    action_max     |-> MaxSeq(actions[episode]),
    obs            |-> MeanSeq(obs),
    obs_min        |-> MinSeq(obs),
    obs_max        |-> MaxSeq(obs),
    metrics        |-> MetricsText(metrics[episode]) ]

TEL_on_episode_end(episode) ==
  LET known == episode \in DOMAIN episode_start
      duration == IF known THEN now - episode_start[episode] ELSE -1
      nsteps == IF known THEN Len(observations[episode]) ELSE -1
      exc == EpisodeEndError(episode, duration)
  IN
  /\ out' = [NoOut EXCEPT !.event = "on_episode_end", !.arg = episode, !.exc = exc,
                          !.printed = IF exc = "" THEN <<Summary(episode, duration)>>
                                      ELSE <<>>,
                          !.duration = duration, !.steps = nsteps]
  /\ IF exc = ""
     THEN /\ episode_start' = DelItem(episode_start, episode)
          /\ observations' = DelItem(observations, episode)
          /\ rewards' = DelItem(rewards, episode)
          /\ actions' = DelItem(actions, episode)
          /\ metrics' = DelItem(metrics, episode)
          /\ delivered' = DelItem(delivered, episode)
     ELSE UNCHANGED telVars
  /\ UNCHANGED <<now, cbVars, ilVars>>

\* The loggers as constructed and after on_train_begin, which the training loop
\* calls before any episode or step event and which sets metrics_names.
InitCommon ==
  /\ now = 0
  /\ episode_start = EmptyDict
  /\ observations = EmptyDict
  /\ rewards = EmptyDict
  /\ actions = EmptyDict
  /\ metrics = EmptyDict
  /\ delivered = EmptyDict
  /\ calls = <<>>
  /\ steps = 0
  /\ interval_start = 0
  /\ window_metrics = <<>>
  /\ trace = [ends |-> 0, alternating |-> TRUE, last |-> ""]
  /\ out = NoOut

InitEpisode ==
  /\ InitCommon
  /\ callbacks = <<>>
  /\ interval = DefaultInterval
  /\ progbar = [target |-> DefaultInterval, current |-> 0, values |-> <<>>]

EpisodeBegin == \E e \in Episodes : TEL_on_episode_begin(e)
EpisodeStep ==
  \E e \in Episodes, logs \in StepLogs :
    /\ e \in DOMAIN observations => Len(observations[e]) < MaxSteps
    /\ TEL_on_step_end(logs, e)
EpisodeEnd == \E e \in Episodes : TEL_on_episode_end(e)

NextEpisode == Tick \/ EpisodeBegin \/ EpisodeStep \/ EpisodeEnd

SpecEpisode == InitEpisode /\ [][NextEpisode]_vars

(***************************************************************************)
(* CallbackList                                                            *)
(***************************************************************************)
NewMethods == {"on_episode_begin", "on_episode_end", "on_step_begin", "on_step_end"}

\* the Keras method each dispatch falls back to
Legacy(method) ==
  CASE method = "on_episode_begin" -> "on_epoch_begin"
    [] method = "on_episode_end"   -> "on_epoch_end"
    [] method = "on_step_begin"    -> "on_batch_begin"
    [] method = "on_step_end"      -> "on_batch_end"

LegacyMethods == {Legacy(m) : m \in NewMethods}

\* A callback object: the attributes that are callable methods and the
\* attributes that are present but not callable (set to None, say).
CallbackObj(c, n) == [callable |-> c, noncallable |-> n]

CallbackKinds ==
  { CallbackObj(NewMethods \cup LegacyMethods, {}),            \* an rl Callback
    CallbackObj(LegacyMethods, {}),                           \* a built-in Keras callback
    CallbackObj(NewMethods, {}),                              \* duck-typed, no Keras base
    CallbackObj({}, {}),                                      \* supports neither
    CallbackObj(LegacyMethods \cup {"on_episode_end", "on_step_begin"},
                {"on_episode_begin", "on_step_end"}),         \* new names shadowed by data
    CallbackObj({"on_epoch_begin", "on_batch_begin", "on_episode_end"},
                {"on_batch_end"}) }                           \* partial, one legacy name shadowed

DispatchLogs == { EmptyDict, [nb_steps |-> 1] }
Indices == {0, 1}

\* callable(getattr(callback, method, None)) for the callback at position j
SupportsFirst(cbs, j, method) == method \in cbs[1].callable
Supports(cbs, j, method) == method \in cbs[j].callable

\* what callback.<legacy>(index, logs=logs) does: "call" when the method runs,
\* otherwise the exception Python raises
LegacyCallLenient(cb, legacy) ==
  IF legacy \in cb.noncallable THEN "TypeError" ELSE "call"
LegacyCall(cb, legacy) ==
  IF legacy \in cb.callable THEN "call"
  ELSE IF legacy \in cb.noncallable THEN "TypeError"
  ELSE "AttributeError"

Invocation(j, method, index, logs) ==
  [cb |-> j, method |-> method, index |-> index, logs |-> logs]

\* the for loop of one dispatch method, from position j on
RECURSIVE Dispatch(_, _, _, _, _, _)
Dispatch(cbs, j, method, index, logs, done) ==
  IF j > Len(cbs) THEN [calls |-> done, exc |-> ""]
  ELSE IF Supports(cbs, j, method)
       THEN Dispatch(cbs, j + 1, method, index, logs,
                     Append(done, Invocation(j, method, index, logs)))
       ELSE LET r == LegacyCall(cbs[j], Legacy(method)) IN
            IF r = "call"
            THEN Dispatch(cbs, j + 1, method, index, logs,
                          Append(done, Invocation(j, Legacy(method), index, logs)))
            ELSE [calls |-> done, exc |-> r]

CL_dispatch(method, index, logs) ==
  LET r == Dispatch(callbacks, 1, method, index, logs, <<>>) IN
  /\ calls' = r.calls
  /\ out' = [NoOut EXCEPT !.event = method, !.arg = index, !.exc = r.exc, !.logs = logs]
  /\ UNCHANGED <<now, telVars, callbacks, ilVars>>

CL_on_episode_begin == \E i \in Indices, l \in DispatchLogs : CL_dispatch("on_episode_begin", i, l)
CL_on_episode_end == \E i \in Indices, l \in DispatchLogs : CL_dispatch("on_episode_end", i, l)
CL_on_step_begin == \E i \in Indices, l \in DispatchLogs : CL_dispatch("on_step_begin", i, l)
CL_on_step_end == \E i \in Indices, l \in DispatchLogs : CL_dispatch("on_step_end", i, l)

RECURSIVE SeqsUpTo(_, _)
SeqsUpTo(S, n) ==
  IF n = 0 THEN {<<>>}
  ELSE LET shorter == SeqsUpTo(S, n - 1) IN
       shorter \cup {Append(s, x) : s \in shorter, x \in S}

InitDispatch ==
  /\ InitCommon
  /\ callbacks \in SeqsUpTo(CallbackKinds, MaxCallbacks)
  /\ interval = DefaultInterval
  /\ progbar = [target |-> DefaultInterval, current |-> 0, values |-> <<>>]

NextDispatch ==
  CL_on_episode_begin \/ CL_on_episode_end \/ CL_on_step_begin \/ CL_on_step_end

SpecDispatch == InitDispatch /\ [][NextDispatch]_vars

(***************************************************************************)
(* TrainIntervalLogger                                                     *)
(***************************************************************************)
Intervals == {1, 2, 3, 10}

NewProgbar(target) == [target |-> target, current |-> 0, values |-> <<>>]

\* self.steps % self.interval == 0
WindowBoundaryLate(s, w) == (s + 1) % w = 0
WindowBoundary(s, w) == s % w = 0

\* the first argument of progbar.update
ProgressAbsolute(s, w) == s + 1
Progress(s, w) == (s % w) + 1

IL_on_step_begin ==
  /\ IF WindowBoundary(steps, interval)
     THEN \* self.reset() and the interval marker
          /\ interval_start' = now
          /\ progbar' = NewProgbar(interval)
          /\ window_metrics' = <<>>
          /\ out' = [NoOut EXCEPT !.event = "on_step_begin",
                       !.printed = << [line |-> "Interval",
                                       number |-> (steps \div interval) + 1,
                                       steps |-> steps] >>]
     ELSE /\ out' = [NoOut EXCEPT !.event = "on_step_begin"]
          /\ UNCHANGED <<interval_start, progbar, window_metrics>>
  /\ trace' = [ends |-> trace.ends,
               alternating |-> trace.alternating /\ trace.last # "begin",
               last |-> "begin"]
  /\ UNCHANGED <<now, telVars, cbVars, interval, steps>>

\* filtered_metrics: a NaN entry is replaced by the column's nanmean over the
\* window buffer, or stays NaN while the buffer is empty
Filtered(buffer, vector) ==
  [idx \in 1..Len(vector) |->
     IF ~IsNaN(vector[idx]) THEN vector[idx]
     ELSE IF Len(buffer) > 0 THEN NanMean(Column(buffer, idx))
     ELSE NaN]

\* the vector on_step_end appends to self.metrics
BufferedFiltered(buffer, vector) == Filtered(buffer, vector)
Buffered(buffer, vector) == vector

ProgbarValues(logs, filtered) ==
  << <<"reward", IntVal(logs.reward)>> >> \o
  (IF \E idx \in 1..Len(filtered) : IsNaN(filtered[idx]) THEN <<>>
   ELSE [idx \in 1..Len(filtered) |-> <<MetricsNames[idx], filtered[idx]>>])

IL_on_step_end(logs) ==
  LET filtered == Filtered(window_metrics, logs.metrics) IN
  /\ progbar' = [progbar EXCEPT !.current = Progress(steps, interval),
                                !.values = ProgbarValues(logs, filtered)]
  /\ steps' = steps + 1
  /\ window_metrics' = Append(window_metrics, Buffered(window_metrics, logs.metrics))
  /\ out' = [NoOut EXCEPT !.event = "on_step_end", !.logs = logs, !.filtered = filtered]
  /\ trace' = [ends |-> trace.ends + 1,
               alternating |-> trace.alternating /\ trace.last = "begin",
               last |-> "end"]
  /\ UNCHANGED <<now, telVars, cbVars, interval, interval_start>>

\* TrainIntervalLogger(interval): steps = 0, then reset()
InitInterval ==
  /\ now = 0
  /\ episode_start = EmptyDict
  /\ observations = EmptyDict
  /\ rewards = EmptyDict
  /\ actions = EmptyDict
  /\ metrics = EmptyDict
  /\ delivered = EmptyDict
  /\ callbacks = <<>>
  /\ calls = <<>>
  /\ out = NoOut
  /\ interval \in Intervals
  /\ steps = 0
  /\ interval_start = now
  /\ progbar = NewProgbar(interval)
  /\ window_metrics = <<>>
  /\ trace = [ends |-> 0, alternating |-> TRUE, last |-> ""]

\* the payloads tried with a window: the long window gets the lean set
LogsFor(w) == IF w > 3 THEN StepLogs10 ELSE StepLogs

IntervalStepEnd ==
  /\ steps < interval + MaxExtraSteps
  /\ \E logs \in LogsFor(interval) : IL_on_step_end(logs)

NextInterval == Tick \/ IL_on_step_begin \/ IntervalStepEnd

SpecInterval == InitInterval /\ [][NextInterval]_vars

(***************************************************************************)
(* Properties of TrainEpisodeLogger (checked under SpecEpisode)            *)
(***************************************************************************)
Absent(e) ==
  /\ e \notin DOMAIN episode_start
  /\ e \notin DOMAIN observations
  /\ e \notin DOMAIN rewards
  /\ e \notin DOMAIN actions
  /\ e \notin DOMAIN metrics

\* C1: after on_episode_begin(E), any number n >= 0 of step-end events for E and
\* on_episode_end(E), E is absent from all five per-episode dictionaries.
\* (out.steps >= 0 says the episode had been begun when on_episode_end ran.)
C1_PurgedAfterEpisodeEnd ==
  (out.event = "on_episode_end" /\ out.steps >= 0) => Absent(out.arg)

\* C7: on_episode_end does not fail because the measured duration is zero: the
\* summary line is still printed and the episode's buffers are purged.
C7_ZeroDurationHandled ==
  (out.event = "on_episode_end" /\ out.duration = 0 /\ out.steps >= 1) =>
     /\ out.exc = ""
     /\ Len(out.printed) = 1
     /\ Absent(out.arg)

Field(d, f) == [k \in 1..Len(d) |-> d[k][f]]
FlatObs(d) == Concatenate([k \in 1..Len(d) |-> Concatenate(d[k].observation)])

\* x is the exact quotient total / count
IsQuotient(x, total, count) ==
  /\ x.tag = "num"
  /\ x.den > 0
  /\ x.num * count = x.den * total

RECURSIVE CountNonNaN(_, _)
CountNonNaN(vectors, i) ==
  IF vectors = <<>> THEN 0
  ELSE (IF IsNaN(Head(vectors)[i]) THEN 0 ELSE 1) + CountNonNaN(Tail(vectors), i)

RECURSIVE TotalNonNaN(_, _)
TotalNonNaN(vectors, i) ==
  IF vectors = <<>> THEN 0
  ELSE (IF IsNaN(Head(vectors)[i]) THEN 0 ELSE Head(vectors)[i].num)
       + TotalNonNaN(Tail(vectors), i)

\* the entry for metric i is "--" when no recorded vector has a number at i,
\* and the mean of the numbers at i otherwise
RendersColumn(entry, vectors, i) ==
  /\ entry.name = MetricsNames[i]
  /\ IF CountNonNaN(vectors, i) = 0
     THEN entry.value = Str("--") /\ entry.template = "{}: {}"
     ELSE /\ IsQuotient(entry.value, TotalNonNaN(vectors, i), CountNonNaN(vectors, i))
          /\ entry.template = "{}: {:f}"

SummaryOf(line, d) ==
  /\ line.steps = Len(d)
  /\ line.episode_reward = SumSeq(Field(d, "reward"))
  /\ IsQuotient(line.reward, SumSeq(Field(d, "reward")), Len(d))
  /\ line.reward_min = MinSeq(Field(d, "reward"))
  /\ line.reward_max = MaxSeq(Field(d, "reward"))
  /\ IsQuotient(line.action, SumSeq(Field(d, "action")), Len(d))
  /\ line.action_min = MinSeq(Field(d, "action"))
  /\ line.action_max = MaxSeq(Field(d, "action"))
  /\ IsQuotient(line.obs, SumSeq(FlatObs(d)), Len(FlatObs(d)))
  /\ line.obs_min = MinSeq(FlatObs(d))
  /\ line.obs_max = MaxSeq(FlatObs(d))
  /\ \A i \in 1..Len(MetricsNames) :
        RendersColumn(line.metrics[i], Field(d, "metrics"), i)

BuffersOf(e) == <<episode_start[e], observations[e], rewards[e], actions[e], metrics[e]>>

KeepsOthers(e) ==
  \A e2 \in Episodes \ {e} :
     /\ (e2 \in DOMAIN episode_start) <=> (e2 \in DOMAIN episode_start')
     /\ (e2 \in DOMAIN observations) <=> (e2 \in DOMAIN observations')
     /\ (e2 \in DOMAIN rewards) <=> (e2 \in DOMAIN rewards')
     /\ (e2 \in DOMAIN actions) <=> (e2 \in DOMAIN actions')
     /\ (e2 \in DOMAIN metrics) <=> (e2 \in DOMAIN metrics')
     /\ e2 \in DOMAIN episode_start => BuffersOf(e2)' = BuffersOf(e2)

\* C2: whatever the interleaving of two episodes' events, the values summarised
\* at on_episode_end(E1) are exactly those delivered by the step-end events with
\* logs['episode'] = E1, in order, and on_episode_end(E1) leaves the buffers of
\* the other episode unchanged.
C2_NoCrossContamination ==
  [][ \A e \in Episodes :
        (TEL_on_episode_end(e) /\ out'.exc = "") =>
           /\ e \in DOMAIN delivered
           /\ rewards[e] = Field(delivered[e], "reward")
           /\ actions[e] = Field(delivered[e], "action")
           /\ metrics[e] = Field(delivered[e], "metrics")
           /\ observations[e] =
                [k \in 1..Len(delivered[e]) |-> Concatenate(delivered[e][k].observation)]
           /\ SummaryOf(out'.printed[1], delivered[e])
           /\ KeepsOthers(e) ]_vars

C2_Witness ==
  /\ out.event = "on_episode_end"
  /\ out.exc = ""
  /\ out.printed[1].steps = 2
  /\ \E e2 \in Episodes \ {out.arg} :
        e2 \in DOMAIN rewards /\ Len(rewards[e2]) = 2
                              /\ SumSeq(rewards[e2]) # out.printed[1].episode_reward

\* C8: at on_episode_end each metric is rendered as "--" when every recorded
\* vector has NaN at its index and as the mean of the non-NaN values otherwise;
\* an all-NaN column neither aborts the summary nor changes the other entries.
C8_AllNaNColumnPlaceholder ==
  [][ \A e \in Episodes :
        (TEL_on_episode_end(e) /\ out'.steps >= 1 /\ out'.duration > 0) =>
           /\ out'.exc = ""
           /\ Len(out'.printed) = 1
           /\ \A i \in 1..Len(MetricsNames) :
                 RendersColumn(out'.printed[1].metrics[i], metrics[e], i) ]_vars

C8_Witness ==
  /\ out.event = "on_episode_end"
  /\ out.exc = ""
  /\ out.steps = 2
  /\ out.printed[1].metrics[1].value = Str("--")
  /\ out.printed[1].metrics[2].value = Num(5, 2)

SameShape ==
  /\ DOMAIN observations = DOMAIN episode_start
  /\ DOMAIN rewards = DOMAIN episode_start
  /\ DOMAIN actions = DOMAIN episode_start
  /\ DOMAIN metrics = DOMAIN episode_start
  /\ DOMAIN delivered = DOMAIN episode_start
  /\ \A e \in DOMAIN episode_start :
        /\ Len(observations[e]) = Len(delivered[e])
        /\ Len(rewards[e]) = Len(delivered[e])
        /\ Len(actions[e]) = Len(delivered[e])
        /\ Len(metrics[e]) = Len(delivered[e])

\* C9: the five dictionaries always have the same key set, the episodes begun
\* and not yet ended; for each of them the four sequences have the same length,
\* the number of step-end events received since its begin; a step-end or an
\* episode-end for any other identifier raises and changes no buffer.
C9_BuffersInStep ==
  /\ SameShape
  /\ [][ /\ SameShape'
         /\ \A e \in Episodes \ DOMAIN episode_start :
               (TEL_on_episode_end(e) \/ \E logs \in StepLogs : TEL_on_step_end(logs, e)) =>
                  /\ out'.exc = "KeyError"
                  /\ UNCHANGED <<episode_start, observations, rewards, actions, metrics>>
       ]_vars

C9_Witness ==
  /\ out.event = "on_step_end"
  /\ out.exc = "KeyError"
  /\ \E e \in DOMAIN rewards : Len(rewards[e]) = 2 /\ Len(delivered[e]) = 2

(***************************************************************************)
(* Properties of CallbackList (checked under SpecDispatch)                 *)
(***************************************************************************)
\* C3: a dispatch visits the callbacks in registration order and invokes exactly
\* one method on each with the dispatch's own (index, logs): the new-convention
\* method where the callback has it as a callable, the legacy one otherwise,
\* decided callback by callback.
C3_PerCallbackConvention ==
  out.event \in NewMethods =>
     /\ Len(calls) <= Len(callbacks)
     /\ \A j \in 1..Len(calls) :
           /\ calls[j].cb = j
           /\ calls[j].index = out.arg
           /\ calls[j].logs = out.logs
           /\ calls[j].method = IF out.event \in callbacks[j].callable
                                THEN out.event ELSE Legacy(out.event)
           /\ calls[j].method \in callbacks[j].callable
     /\ out.exc = "" => Len(calls) = Len(callbacks)
     /\ Len(calls) < Len(callbacks) =>
           /\ out.exc # ""
           /\ out.event \notin callbacks[Len(calls) + 1].callable
           /\ Legacy(out.event) \notin callbacks[Len(calls) + 1].callable

C3_Witness ==
  /\ out.event = "on_step_end"
  /\ out.exc = ""
  /\ Len(calls) = 3
  /\ calls[1].method = "on_batch_end"
  /\ calls[2].method = "on_step_end"
  /\ calls[3].method = "on_batch_end"
  /\ "on_step_end" \in callbacks[3].noncallable

HasNeither(cb, method) ==
  /\ method \notin cb.callable \cup cb.noncallable
  /\ Legacy(method) \notin cb.callable \cup cb.noncallable

\* C4: a dispatch that reaches a callback with neither the new nor the legacy
\* method for the event fails with an error at that callback; it does not skip
\* the callback and go on.
C4_MissingCapabilityRaises ==
  out.event \in NewMethods =>
     \A j \in 1..Len(callbacks) :
        (Len(calls) >= j - 1 /\ HasNeither(callbacks[j], out.event)) =>
           /\ out.exc = "AttributeError"
           /\ Len(calls) = j - 1

C4_Witness ==
  /\ out.event = "on_episode_begin"
  /\ out.exc = "AttributeError"
  /\ Len(calls) = 1
  /\ Len(callbacks) = 3
  /\ HasNeither(callbacks[2], "on_episode_begin")

(***************************************************************************)
(* Properties of TrainIntervalLogger (checked under SpecInterval)          *)
(***************************************************************************)
WindowReset ==
  /\ window_metrics' = <<>>
  /\ progbar' = NewProgbar(interval)
  /\ interval_start' = now
  /\ Len(out'.printed) = 1
  /\ out'.printed[1].line = "Interval"
  /\ out'.printed[1].number * interval = steps + interval
  /\ out'.printed[1].steps = steps

NoWindowReset ==
  /\ UNCHANGED <<window_metrics, progbar, interval_start>>
  /\ out'.printed = <<>>

\* C5: on_step_begin resets the window and prints the interval marker exactly
\* when the step counter is a multiple of the window size; with window size 10
\* and alternating step-begin / step-end events, the step-begins at step
\* indices 0 and 10 reset the window and the one at index 9 does not.
C5_ResetOnWindowBoundary ==
  [][ IL_on_step_begin =>
        /\ IF steps % interval = 0 THEN WindowReset ELSE NoWindowReset
        /\ (interval = 10 /\ trace'.alternating /\ trace.ends \in {0, 10}) => WindowReset
        /\ (interval = 10 /\ trace'.alternating /\ trace.ends = 9) => NoWindowReset
    ]_vars

C5_Witness ==
  /\ interval = 10
  /\ trace.alternating
  /\ trace.last = "begin"
  /\ trace.ends = 10
  /\ window_metrics = <<>>
  /\ out.printed # <<>>
  /\ out.printed[1].number = 2

\* C6: on_step_end replaces each NaN entry of the step's metric vector by the
\* mean of the non-NaN values at that index in the window buffer (NaN when
\* there is none), keeps every other entry, and appends the raw vector to the
\* buffer; for [NaN, 2] after [[1, NaN]] the substitute at index 0 is 1 and
\* [NaN, 2] is what is appended.
C6_NaNSubstitution ==
  out.event = "on_step_end" =>
     LET v == out.logs.metrics
         before == SubSeq(window_metrics, 1, Len(window_metrics) - 1)
         f == out.filtered
     IN
     /\ Len(window_metrics) >= 1
     /\ window_metrics[Len(window_metrics)] = v
     /\ Len(f) = Len(v)
     /\ \A i \in 1..Len(v) :
           IF ~IsNaN(v[i]) THEN f[i] = v[i]
           ELSE IF CountNonNaN(before, i) = 0 THEN IsNaN(f[i])
           ELSE IsQuotient(f[i], TotalNonNaN(before, i), CountNonNaN(before, i))
     /\ (v = <<NaN, IntVal(2)>> /\ before = << <<IntVal(1), NaN>> >>) =>
           /\ f[1] = IntVal(1)
           /\ window_metrics = << <<IntVal(1), NaN>>, <<NaN, IntVal(2)>> >>

C6_Witness ==
  /\ out.event = "on_step_end"
  /\ out.logs.metrics = <<NaN, IntVal(2)>>
  /\ window_metrics = << <<IntVal(1), NaN>>, <<NaN, IntVal(2)>> >>
  /\ out.filtered = <<IntVal(1), IntVal(2)>>

\* C10: with step-begin and step-end strictly alternating, after every
\* on_step_end the step counter is the number of step-end events received, the
\* window buffer holds ((steps - 1) mod W) + 1 vectors, never more than W, and
\* the progress value given to the progress display lies in 1..W.
C10_WindowBounded ==
  (trace.alternating /\ trace.last = "end") =>
     /\ steps = trace.ends
     /\ Len(window_metrics) = ((steps - 1) % interval) + 1
     /\ Len(window_metrics) <= interval
     /\ progbar.current \in 1..interval

C10_Witness ==
  /\ trace.alternating
  /\ trace.last = "end"
  /\ interval = 3
  /\ steps = 5
  /\ Len(window_metrics) = 2

====
